---------------------------- MODULE Spec2Model ----------------------------
(***************************************************************************)
(* A model of the Tiny v2 writer of jvm_obfuscation_mappings               *)
(* (src/format/tiny2.rs) as a MappingVisitor (src/visitor.rs).             *)
(*                                                                         *)
(* Text is a sequence of one-character strings, so that the sink holds     *)
(* exactly the characters the writer appended, in order.  The class names  *)
(* and types of src/descriptor are modelled by what their functions        *)
(* compute on such text.                                                   *)
(*                                                                         *)
(* Two specifications share the writer:                                    *)
(*   Spec       any callback, with any argument, in any order (the trait's *)
(*              methods are public: nothing in the code enforces an order);*)
(*   SpecProto  a producer that follows the visitation order documented on *)
(*              the MappingVisitor trait.                                  *)
(***************************************************************************)
EXTENDS Integers, Sequences, FiniteSets

VARIABLES
    sink,       \* Tiny2Writer.write: the characters the sink has accepted
    dst_names,  \* Tiny2Writer.dst_names: Vec<Option<String>>
    budget,     \* the sink: how many more writes it accepts (Unlimited: all)
    last,       \* the last callback: its name, result and write attempts
    ncalls,     \* callbacks made so far
    script,     \* how far the calls so far follow Scenario (Off: they do not)
    stage,      \* the producer: where the pass is
    open,       \* the producer: elements whose content is being visited
    pending,    \* the producer: element begun, checkpoint not yet visited
    nns,        \* the producer: destination namespaces of the pass
    passed,     \* the producer: names passed for the pending element
    named,      \* the producer: its visit_dst_name calls for that element,
                \* kept until the call that follows the checkpoint
    seen,       \* the producer: elements already visited in the pass
    stale,      \* the producer: names pending when a visitation was abandoned
    cls,        \* descriptor::ClassName: a name, the calls made on it, the result
    typ         \* descriptor::Type: a type, the calls made on it, the result

producer == <<stage, open, pending, nns, passed, named, seen, stale>>
descriptors == <<cls, typ>>
vars == <<sink, dst_names, budget, last, ncalls, script,
          stage, open, pending, nns, passed, named, seen, stale, cls, typ>>

---------------------------------------------------------------------------
(* Bounds of the model.                                                    *)

MaxNs == 2          \* destination namespaces passed to visit_namespaces
MaxCalls == 3       \* callbacks in a behaviour of Spec
MaxProtoCalls == 11 \* callbacks in a behaviour of SpecProto
MaxBudget == 2      \* writes a bounded sink accepts before it rejects
MaxNameLen == 3     \* characters of a name given to ClassName
MaxNameCalls == 4   \* calls in a behaviour of SpecNames
MaxArrays == 3      \* calls of array() in a behaviour of SpecTypes

---------------------------------------------------------------------------
(* Text.                                                                   *)

Tab == "\t"
Newline == "\n"

Named == <<"n", "a", "m", "e", "d">>
DstNamespaceNames ==
    << <<"i", "n", "t", "e", "r", "m", "e", "d", "i", "a", "r", "y">>,
       <<"o", "f", "f", "i", "c", "i", "a", "l">>,
       <<"s", "r", "g">>,
       <<"m", "o", "j">> >>
Intermediary == DstNamespaceNames[1]
Note == <<"n", "o", "t", "e">>

\* Option<T>
None == [some |-> FALSE, val |-> <<>>]
Some(v) == [some |-> TRUE, val |-> v]

Kinds == {"Class", "Field", "Method", "MethodArg", "MethodVar"}

\* A variant of level that puts every kind at the depth of a class.
level_flat(kind) == 0

\* MappedElementKind::level
level(kind) ==
    CASE kind = "Class" -> 0
      [] kind = "Field" -> 1
      [] kind = "Method" -> 1
      [] kind = "MethodArg" -> 2
      [] kind = "MethodVar" -> 2

Digits == <<"0", "1", "2", "3", "4", "5", "6", "7", "8", "9">>

RECURSIVE DecNat(_)
DecNat(n) ==
    IF n < 10 THEN <<Digits[n + 1]>>
    ELSE DecNat(n \div 10) \o <<Digits[(n % 10) + 1]>>

\* The digits of a negative n, taken from n itself: -n does not fit an i32
\* when n is i32::MIN.
RECURSIVE DecNeg(_)
DecNeg(n) ==
    IF n > -10 THEN <<Digits[1 - n]>>
    ELSE LET q == (n + 9) \div 10
         IN DecNeg(q) \o <<Digits[(10 * q - n) + 1]>>

\* write!(self.write, "{}", n) for an i32: its decimal digits, "-" first
\* when negative.
Display(n) == IF n < 0 THEN <<"-">> \o DecNeg(n) ELSE DecNat(n)

I32Min == -2147483647 - 1
I32Max == 2147483647

\* A variant of i32::max that returns its first argument whatever the second.
i32_first(a, b) == a

\* i32::max
i32_max(a, b) == IF a >= b THEN a ELSE b

---------------------------------------------------------------------------
(* descriptor::ClassName.                                                  *)

\* A variant of replace that replaces the first match only.
RECURSIVE replace_first(_, _, _)
replace_first(s, from, to) ==
    IF s = <<>> THEN <<>>
    ELSE IF Head(s) = from THEN to \o Tail(s)
    ELSE <<Head(s)>> \o replace_first(Tail(s), from, to)

\* str::replace(from, to) for a one-character pattern: every match, left to
\* right, gives way to the text `to`.
RECURSIVE replace(_, _, _)
replace(s, from, to) ==
    IF s = <<>> THEN <<>>
    ELSE (IF Head(s) = from THEN to ELSE <<Head(s)>>)
         \o replace(Tail(s), from, to)

\* ClassName { internal_name }
ClassName(name) == [internal_name |-> name]

\* ClassName::from_internal_name
from_internal_name(name) == ClassName(name)

\* A variant of from_binary_name that keeps the name as it is given.
from_binary_name_verbatim(name) == ClassName(name)

\* ClassName::from_binary_name
from_binary_name(name) == ClassName(replace(name, ".", <<"/">>))

\* ClassName::internal_name
internal_name(self) == self.internal_name

\* ClassName::binary_name
binary_name(self) == replace(self.internal_name, "/", <<".">>)

\* The names given to ClassName: no character is rejected, so the package
\* separators of both formats occur anywhere.
NameChars == {"a", ".", "/"}
NameTexts == UNION {[1..n -> NameChars] : n \in 0..MaxNameLen}

---------------------------------------------------------------------------
(* descriptor::Type.                                                       *)

PrimitiveTags == {"Byte", "Short", "Int", "Long", "Float", "Double",
                  "Boolean", "Char", "Void"}

\* Type::Byte .. Type::Void
Primitive(tag) == [tag |-> tag]

\* Type::Object(ClassName)
Object(name) == [tag |-> "Object", name |-> name]

\* Type::Array(Box<Type>)
Array(element_type) == [tag |-> "Array", element_type |-> element_type]

\* ClassName::to_type
to_type(self) == Object(self)

\* A variant of descriptor that leaves the ";" off an object type.
RECURSIVE descriptor_unterminated(_)
descriptor_unterminated(self) ==
    CASE self.tag = "Object" -> <<"L">> \o internal_name(self.name)
      [] self.tag = "Array" ->
            <<"[">> \o descriptor_unterminated(self.element_type)
      [] self.tag = "Byte" -> <<"B">>
      [] self.tag = "Short" -> <<"S">>
      [] self.tag = "Int" -> <<"I">>
      [] self.tag = "Long" -> <<"J">>
      [] self.tag = "Float" -> <<"F">>
      [] self.tag = "Double" -> <<"D">>
      [] self.tag = "Boolean" -> <<"Z">>
      [] self.tag = "Char" -> <<"C">>
      [] self.tag = "Void" -> <<"V">>

\* Type::descriptor
RECURSIVE descriptor(_)
descriptor(self) ==
    CASE self.tag = "Object" -> <<"L">> \o internal_name(self.name) \o <<";">>
      [] self.tag = "Array" -> <<"[">> \o descriptor(self.element_type)
      [] self.tag = "Byte" -> <<"B">>
      [] self.tag = "Short" -> <<"S">>
      [] self.tag = "Int" -> <<"I">>
      [] self.tag = "Long" -> <<"J">>
      [] self.tag = "Float" -> <<"F">>
      [] self.tag = "Double" -> <<"D">>
      [] self.tag = "Boolean" -> <<"Z">>
      [] self.tag = "Char" -> <<"C">>
      [] self.tag = "Void" -> <<"V">>

\* Type::java_name
RECURSIVE java_name(_)
java_name(self) ==
    CASE self.tag = "Object" -> binary_name(self.name)
      [] self.tag = "Array" -> java_name(self.element_type) \o <<"[", "]">>
      [] self.tag = "Byte" -> <<"b", "y", "t", "e">>
      [] self.tag = "Short" -> <<"s", "h", "o", "r", "t">>
      [] self.tag = "Int" -> <<"i", "n", "t">>
      [] self.tag = "Long" -> <<"l", "o", "n", "g">>
      [] self.tag = "Float" -> <<"f", "l", "o", "a", "t">>
      [] self.tag = "Double" -> <<"d", "o", "u", "b", "l", "e">>
      [] self.tag = "Boolean" -> <<"b", "o", "o", "l", "e", "a", "n">>
      [] self.tag = "Char" -> <<"c", "h", "a", "r">>
      [] self.tag = "Void" -> <<"v", "o", "i", "d">>

\* Type::array: an array of a clone of the receiver
array(self) == Array(self)

\* A variant of array_depth that does not look into the element type.
array_depth_shallow(self) == IF self.tag = "Array" THEN 1 ELSE 0

\* Type::array_depth
RECURSIVE array_depth(_)
array_depth(self) ==
    IF self.tag = "Array" THEN 1 + array_depth(self.element_type) ELSE 0

JavaLangString == <<"j", "a", "v", "a", ".", "l", "a", "n", "g", ".", "S", "t", "r", "i", "n", "g">>

\* The class names of the object types: made of a binary name, of an
\* internal name, and of texts no JVM class has.
ObjectNames ==
    {from_binary_name(JavaLangString),
     from_internal_name(<<"a", "/", "B", "$", "C">>),
     from_internal_name(<<"[", "a">>),
     from_internal_name(<<>>)}

\* The types that are no arrays.
ElementTypes ==
    {Primitive(tag) : tag \in PrimitiveTags} \cup {to_type(c) : c \in ObjectNames}

\* The types a behaviour starts from: the element types and arrays of them.
StartTypes == ElementTypes \cup {array(t) : t \in ElementTypes}

\* No call made on a type yet.
NoTypeCall == [start |-> Primitive("Void"), self |-> Primitive("Void"),
               arrays |-> 0, op |-> "new", receiver |-> Primitive("Void"),
               out |-> <<>>]

\* No call made on a class name yet.
NoNameCall == [arg |-> <<>>, cn |-> ClassName(<<>>), first |-> ClassName(<<>>),
               path |-> <<>>, out |-> <<>>]

---------------------------------------------------------------------------
(* The sink (W: std::fmt::Write) and the `?` after each write.             *)
(*                                                                         *)
(* A run is the state of one callback as it executes: the sink so far,     *)
(* whether an earlier `?` has already returned, and the writes attempted   *)
(* and rejected.  A sink with budget 0 rejects a write and appends         *)
(* nothing; an Unlimited sink (a String) never rejects.                    *)

Unlimited == -1

Begin == [out |-> sink, budget |-> budget, ok |-> TRUE,
          attempts |-> 0, rejects |-> 0]

\* A variant of write_str that puts the text in front of what the sink holds.
write_str_in_front(run, s) ==
    IF ~run.ok THEN run
    ELSE IF run.budget = 0
    THEN [run EXCEPT !.ok = FALSE, !.attempts = @ + 1, !.rejects = @ + 1]
    ELSE [run EXCEPT !.out = s \o @,
                     !.budget = IF @ = Unlimited THEN @ ELSE @ - 1,
                     !.attempts = @ + 1]

\* A variant of write_str that ignores a rejected write and keeps going.
write_str_unchecked(run, s) ==
    IF run.budget = 0
    THEN [run EXCEPT !.attempts = @ + 1, !.rejects = @ + 1]
    ELSE [run EXCEPT !.out = @ \o s,
                     !.budget = IF @ = Unlimited THEN @ ELSE @ - 1,
                     !.attempts = @ + 1]

\* self.write.write_str(s)?
write_str(run, s) ==
    IF ~run.ok THEN run
    ELSE IF run.budget = 0
    THEN [run EXCEPT !.ok = FALSE, !.attempts = @ + 1, !.rejects = @ + 1]
    ELSE [run EXCEPT !.out = @ \o s,
                     !.budget = IF @ = Unlimited THEN @ ELSE @ - 1,
                     !.attempts = @ + 1]

\* self.write_tab()?
write_tab(run) == write_str(run, <<Tab>>)

\* self.writeln()?
writeln(run) == write_str(run, <<Newline>>)

\* if let Some(s) = opt { self.write.write_str(s)?; }
write_opt(run, opt) == IF opt.some THEN write_str(run, opt.val) ELSE run

---------------------------------------------------------------------------
(* Arguments the callbacks are given.                                      *)

ClassNames == {<<"a">>}
FieldNames == {<<"f">>}
FieldDescs == {None, Some(<<"I">>)}
MethodNames == {<<"m">>}
MethodDescs == {None, Some(<<"(", ")", "V">>)}
DstNames == {<<"b">>, <<"g">>}
Comments == {Note}
\* (lv_index, src_name) of visit_method_arg
ArgInputs == {<<0, None>>, <<12, Some(<<"p">>)>>}
\* (lvt_row_index, lv_index, start_op_idx, src_name) of visit_method_var
VarInputs ==
    {<<I32Min, 0, 0, None>>,
     <<-2, 1, 40, Some(<<"v">>)>>,
     <<-1, 2, 0, None>>,
     <<0, 10, 7, Some(<<"v">>)>>,
     <<I32Max, I32Max, I32Max, None>>}

\* (key, value) of visit_metadata
MetadataInputs == {<< <<"K">>, <<"W">> >>}
\* desc of visit_dst_desc
DstDescs == {<<"J">>}

\* The destination namespace lists: every length up to MaxNs.
NamespaceLists == {SubSeq(DstNamespaceNames, 1, n) : n \in 0..MaxNs}

---------------------------------------------------------------------------
(* The scenario of the specification's worked example, as the calls it     *)
(* makes on a fresh writer.                                                *)

Scenario ==
    << <<"visit_namespaces", Named, <<Intermediary>>>>,
       <<"visit_class", <<"a">>>>,
       <<"visit_dst_name", "Class", 0, <<"b">>>>,
       <<"visit_element_content", "Class">>,
       <<"visit_field", <<"f">>, Some(<<"I">>)>>,
       <<"visit_dst_name", "Field", 0, <<"g">>>>,
       <<"visit_element_content", "Field">>,
       <<"visit_comment", "Field", Note>> >>

\* The value of script once the calls have left the scenario.
Off == Len(Scenario) + 1

\* script after `call` returned: one step further when the call is the
\* scenario's next one and it succeeded, Off otherwise.
Follow(call, ok) ==
    IF /\ ok
       /\ script < Len(Scenario)
       /\ call[1] = Scenario[script + 1][1]
       /\ call = Scenario[script + 1]
    THEN script + 1
    ELSE Off

---------------------------------------------------------------------------
(* The callbacks of Tiny2Writer.                                           *)

\* A callback can be made unless an earlier one panicked.
Callable == last.ret # "panic"

\* What every callback leaves behind: the sink as the run left it, and the
\* record of the call.
Return(run, ret, call) ==
    /\ sink' = run.out
    /\ budget' = run.budget
    /\ last' = [op |-> call[1], call |-> call, ret |-> ret,
                attempts |-> run.attempts, rejects |-> run.rejects,
                start |-> Len(sink)]
    /\ ncalls' = ncalls + 1
    /\ script' = Follow(call, ret \in {"true", "unit"})

\* VisitResult<()> of a run
UnitResult(run) == IF run.ok THEN "unit" ELSE "sink_error"

\* A variant of TrueResult that ends in Ok(false).
FalseResult(run) == IF run.ok THEN "false" ELSE "sink_error"

\* VisitResult<bool> of a run that ends in Ok(true)
TrueResult(run) == IF run.ok THEN "true" ELSE "sink_error"

\* Tiny2Writer::flags
flags == {"NeedsHeaderMetadata", "NeedsUniqueness", "NeedsSrcFieldDesc",
          "NeedsSrcMethodDesc"}

\* A variant of write_dst_namespaces that writes the tab behind each name.
RECURSIVE write_dst_namespaces_trailing(_, _)
write_dst_namespaces_trailing(run, dst_namespaces) ==
    IF dst_namespaces = <<>> THEN run
    ELSE write_dst_namespaces_trailing(
             write_tab(write_str(run, Head(dst_namespaces))),
             Tail(dst_namespaces))

\* for dst_namespace in dst_namespaces { write_tab()?; write_str(dst_namespace)?; }
RECURSIVE write_dst_namespaces(_, _)
write_dst_namespaces(run, dst_namespaces) ==
    IF dst_namespaces = <<>> THEN run
    ELSE write_dst_namespaces(
             write_str(write_tab(run), Head(dst_namespaces)),
             Tail(dst_namespaces))

visit_namespaces_run(src_namespace, dst_namespaces) ==
    writeln(
        write_dst_namespaces(
            write_str(
                write_str(Begin, <<"t", "i", "n", "y", Tab, "v", "2", Tab, "0", Tab>>),
                src_namespace),
            dst_namespaces))

\* A variant of visit_namespaces that sizes the scratch buffer the first
\* time only.
visit_namespaces_once(src_namespace, dst_namespaces) ==
    LET run == visit_namespaces_run(src_namespace, dst_namespaces) IN
    /\ Callable
    /\ dst_names' = IF dst_names = <<>>
                    THEN [i \in 1..Len(dst_namespaces) |-> None]
                    ELSE dst_names
    /\ Return(run, UnitResult(run),
              <<"visit_namespaces", src_namespace, dst_namespaces>>)

visit_namespaces(src_namespace, dst_namespaces) ==
    LET run == visit_namespaces_run(src_namespace, dst_namespaces) IN
    /\ Callable
    /\ dst_names' = [i \in 1..Len(dst_namespaces) |-> None]
    /\ Return(run, UnitResult(run),
              <<"visit_namespaces", src_namespace, dst_namespaces>>)

visit_class_run(src_name) ==
    write_str(write_str(Begin, <<"c", Tab>>), src_name)

\* A variant of visit_class that empties the scratch buffer as the class begins.
visit_class_resetting(src_name) ==
    LET run == visit_class_run(src_name) IN
    /\ Callable
    /\ dst_names' = [i \in DOMAIN dst_names |-> None]
    /\ Return(run, TrueResult(run),
              <<"visit_class", src_name>>)

visit_class(src_name) ==
    LET run == visit_class_run(src_name) IN
    /\ Callable
    /\ UNCHANGED dst_names
    /\ Return(run, TrueResult(run),
              <<"visit_class", src_name>>)

\* The run of visit_field or visit_method and its result: the tag is written
\* first; src_desc.ok_or(..)? returns the descriptor error before any more is
\* written.
member_result(tag, src_name, src_desc) ==
    LET r1 == write_str(Begin, <<Tab, tag, Tab>>) IN
    IF ~r1.ok THEN [run |-> r1, ret |-> "sink_error"]
    ELSE IF ~src_desc.some THEN [run |-> r1, ret |-> "desc_error"]
    ELSE LET r2 == write_str(write_tab(write_str(r1, src_desc.val)), src_name)
         IN [run |-> r2, ret |-> TrueResult(r2)]

\* A variant of visit_field that writes an empty descriptor when none is given.
visit_field_placeholder(src_name, src_desc) ==
    member_result("f", src_name,
                  IF src_desc.some THEN src_desc ELSE Some(<<>>))

\* visit_field up to its result: the run and what it returns

visit_field_result(src_name, src_desc) ==
    member_result("f", src_name, src_desc)

visit_field(src_name, src_desc) ==
    LET res == visit_field_result(src_name, src_desc) IN
    /\ Callable
    /\ UNCHANGED dst_names
    /\ Return(res.run, res.ret,
              <<"visit_field", src_name, src_desc>>)

\* visit_method up to its result: the run and what it returns
visit_method_result(src_name, src_desc) ==
    member_result("m", src_name, src_desc)

visit_method(src_name, src_desc) ==
    LET res == visit_method_result(src_name, src_desc) IN
    /\ Callable
    /\ UNCHANGED dst_names
    /\ Return(res.run, res.ret,
              <<"visit_method", src_name, src_desc>>)

visit_method_arg_run(lv_index, src_name) ==
    write_opt(
        write_tab(
            write_str(write_str(Begin, <<Tab, Tab, "p", Tab>>), Display(lv_index))),
        src_name)

visit_method_arg(arg_position, lv_index, src_name) ==
    LET run == visit_method_arg_run(lv_index, src_name) IN
    /\ Callable
    /\ UNCHANGED dst_names
    /\ Return(run, TrueResult(run),
              <<"visit_method_arg", arg_position, lv_index, src_name>>)

visit_method_var_run(lvt_row_index, lv_index, start_op_idx, src_name) ==
    write_opt(
        write_tab(
            write_str(
                write_tab(
                    write_str(
                        write_tab(
                            write_str(write_str(Begin, <<Tab, Tab, "v", Tab>>),
                                      Display(lv_index))),
                        Display(start_op_idx))),
                Display(i32_max(lvt_row_index, -1)))),
        src_name)

visit_method_var(lvt_row_index, lv_index, start_op_idx, src_name) ==
    LET run == visit_method_var_run(lvt_row_index, lv_index, start_op_idx, src_name) IN
    /\ Callable
    /\ UNCHANGED dst_names
    /\ Return(run, TrueResult(run),
              <<"visit_method_var", lvt_row_index, lv_index, start_op_idx, src_name>>)

\* A variant of visit_dst_name that keeps the name a slot already holds.
visit_dst_name_keeping(target_kind, namespace, name) ==
    /\ Callable
    /\ dst_names' = IF namespace < Len(dst_names)
                       /\ ~dst_names[namespace + 1].some
                    THEN [dst_names EXCEPT ![namespace + 1] = Some(name)]
                    ELSE dst_names
    /\ Return(Begin,
              IF namespace < Len(dst_names) THEN "unit" ELSE "panic",
              <<"visit_dst_name", target_kind, namespace, name>>)

\* self.dst_names[namespace] = Some(name.to_owned()): indexing past the end
\* of the Vec panics.
visit_dst_name(target_kind, namespace, name) ==
    /\ Callable
    /\ dst_names' = IF namespace < Len(dst_names)
                    THEN [dst_names EXCEPT ![namespace + 1] = Some(name)]
                    ELSE dst_names
    /\ Return(Begin,
              IF namespace < Len(dst_names) THEN "unit" ELSE "panic",
              <<"visit_dst_name", target_kind, namespace, name>>)

\* A variant of write_dst_names that leaves out the column of a namespace
\* with no name.
RECURSIVE write_dst_names_present(_, _)
write_dst_names_present(run, names) ==
    IF names = <<>> THEN run
    ELSE write_dst_names_present(
             IF Head(names).some THEN write_opt(write_tab(run), Head(names))
             ELSE run,
             Tail(names))

\* for dst_name in &self.dst_names.clone() { write_tab()?; if let Some .. }
RECURSIVE write_dst_names(_, _)
write_dst_names(run, names) ==
    IF names = <<>> THEN run
    ELSE write_dst_names(write_opt(write_tab(run), Head(names)), Tail(names))

visit_element_content_run == write_dst_names(Begin, dst_names)

\* A variant of fill_none that clears the first slot only.
fill_none_first(run) ==
    IF run.ok
    THEN [i \in DOMAIN dst_names |-> IF i = 1 THEN None ELSE dst_names[i]]
    ELSE dst_names

\* A variant of fill_none that empties the Vec instead of its slots.
fill_none_clearing(run) == IF run.ok THEN <<>> ELSE dst_names

\* self.dst_names.fill(None), reached only when no write was rejected
fill_none(run) ==
    IF run.ok THEN [i \in DOMAIN dst_names |-> None] ELSE dst_names

visit_element_content(target_kind) ==
    LET run == visit_element_content_run IN
    /\ Callable
    /\ dst_names' = fill_none(run)
    /\ Return(run, TrueResult(run),
              <<"visit_element_content", target_kind>>)

\* for _ in 0..target_kind.level() { self.write_tab()?; }
RECURSIVE write_tabs(_, _)
write_tabs(run, n) == IF n = 0 THEN run ELSE write_tabs(write_tab(run), n - 1)

visit_comment_run(target_kind, comment) ==
    writeln(
        write_str(
            write_str(write_tabs(Begin, level(target_kind)), <<Tab, "c", Tab>>),
            comment))

visit_comment(target_kind, comment) ==
    LET run == visit_comment_run(target_kind, comment) IN
    /\ Callable
    /\ UNCHANGED dst_names
    /\ Return(run, UnitResult(run),
              <<"visit_comment", target_kind, comment>>)

---------------------------------------------------------------------------
(* The callbacks Tiny2Writer inherits from the trait's defaults.           *)

\* A variant of Default that writes the last argument of the call.
Default_writing(call, ret) ==
    /\ Callable
    /\ sink' = IF Len(call) > 1 THEN sink \o call[Len(call)] ELSE sink
    /\ UNCHANGED <<dst_names, budget>>
    /\ last' = [op |-> call[1], call |-> call, ret |-> ret,
                attempts |-> 0, rejects |-> 0, start |-> Len(sink)]
    /\ ncalls' = ncalls + 1

\* What a default callback leaves behind: nothing is written.
Default(call, ret) ==
    /\ Callable
    /\ UNCHANGED <<sink, dst_names, budget>>
    /\ last' = [op |-> call[1], call |-> call, ret |-> ret,
                attempts |-> 0, rejects |-> 0, start |-> Len(sink)]
    /\ ncalls' = ncalls + 1

\* A variant of visit_end that asks for another pass.
visit_end_restart == "false"

\* MappingVisitor::visit_end: Ok(true)
visit_end_result == "true"

reset == Default(<<"reset">>, "unit") /\ script' = Off
\* visit_header and visit_content are no part of the scenario and return
\* Ok(true) whatever the state: they neither advance nor end it.
visit_header == Default(<<"visit_header">>, "true") /\ UNCHANGED script
visit_content == Default(<<"visit_content">>, "true") /\ UNCHANGED script
visit_metadata(key, value) ==
    Default(<<"visit_metadata", key, value>>, "unit") /\ script' = Off
\* The default takes any namespace index: it looks nothing up.
visit_dst_desc(target_kind, namespace, desc) ==
    Default(<<"visit_dst_desc", target_kind, namespace, desc>>, "unit")
    /\ script' = Off
visit_end == Default(<<"visit_end">>, visit_end_result) /\ script' = Off

---------------------------------------------------------------------------
(* Spec: a fresh writer, and any callback with any argument in any order.  *)

Budgets == (0..MaxBudget) \cup {Unlimited}

\* Tiny2Writer::new, over a sink of any budget, before any producer has
\* called it
NewWriter ==
    /\ sink = <<>>
    /\ dst_names = <<>>
    /\ budget \in Budgets
    /\ last = [op |-> "new", call |-> <<"new">>, ret |-> "unit",
               attempts |-> 0, rejects |-> 0, start |-> 0]
    /\ ncalls = 0
    /\ script = 0
    /\ stage = "start"
    /\ open = <<>>
    /\ pending = ""
    /\ nns = 0
    /\ passed = <<>>
    /\ named = <<>>
    /\ seen = {}
    /\ stale = {}

Init ==
    /\ NewWriter
    /\ cls = NoNameCall
    /\ typ = NoTypeCall

\* A call of Spec: within the bound, and no producer is involved.
Free == ncalls < MaxCalls /\ UNCHANGED <<producer, descriptors>>

AnyNamespaces ==
    Free /\ \E dsts \in NamespaceLists : visit_namespaces(Named, dsts)
AnyClass == Free /\ \E n \in ClassNames : visit_class(n)
AnyField ==
    Free /\ \E n \in FieldNames, d \in FieldDescs : visit_field(n, d)
AnyMethod ==
    Free /\ \E n \in MethodNames, d \in MethodDescs : visit_method(n, d)
AnyArg == Free /\ \E a \in ArgInputs : visit_method_arg(0, a[1], a[2])
AnyVar ==
    Free /\ \E v \in VarInputs : visit_method_var(v[1], v[2], v[3], v[4])
AnyDstName ==
    Free /\ \E k \in Kinds, ns \in 0..MaxNs, n \in DstNames :
                visit_dst_name(k, ns, n)
AnyElementContent == Free /\ \E k \in Kinds : visit_element_content(k)
AnyComment ==
    Free /\ \E k \in Kinds, c \in Comments : visit_comment(k, c)
AnyReset == Free /\ reset
AnyHeader == Free /\ visit_header
AnyContent == Free /\ visit_content
AnyMetadata == Free /\ \E m \in MetadataInputs : visit_metadata(m[1], m[2])
AnyDstDesc ==
    Free /\ \E k \in {"Field", "Method"}, d \in DstDescs :
                visit_dst_desc(k, 0, d)
AnyEnd == Free /\ visit_end

Next ==
    \/ AnyNamespaces
    \/ AnyClass
    \/ AnyField
    \/ AnyMethod
    \/ AnyArg
    \/ AnyVar
    \/ AnyDstName
    \/ AnyElementContent
    \/ AnyComment
    \/ AnyReset
    \/ AnyHeader
    \/ AnyContent
    \/ AnyMetadata
    \/ AnyDstDesc
    \/ AnyEnd

Spec == Init /\ [][Next]_vars

---------------------------------------------------------------------------
(* SpecProto: a producer that drives the writer in the visitation order    *)
(* documented on the MappingVisitor trait.                                 *)
(*                                                                         *)
(*   overall: header -> content -> End                                     *)
(*   header:  Header -> Namespaces [-> Metadata]*                          *)
(*   content: Content [-> class|Metadata]*                                 *)
(*   class:   Class [-> DstName]* -> ElementContent [-> field|method|Comment]* *)
(*   field:   Field [-> DstName|DstDesc]* -> ElementContent [-> Comment]   *)
(*   method:  Method [-> DstName|DstDesc]* -> ElementContent [-> arg|var|Comment]* *)
(*   arg:     Arg [-> DstName]* -> ElementContent [-> Comment]             *)
(*   var:     Var [-> DstName]* -> ElementContent [-> Comment]             *)
(*                                                                         *)
(* A begin callback or a checkpoint that returns false skips the rest of   *)
(* its item; an Err result ends the pass.  The producer honours the flags  *)
(* the writer declares: metadata only in the header (NeedsHeaderMetadata), *)
(* no element twice in a pass (NeedsUniqueness).                           *)

Failed(ret) == ret \in {"sink_error", "desc_error", "panic"}

ProtoCall == ncalls < MaxProtoCalls /\ UNCHANGED descriptors

\* A callback of a visitation: no visitation is abandoned by it.
Proto == ProtoCall /\ UNCHANGED stale

\* stage after a callback that returned `ret`: `on` when it returned true (or
\* unit), `skip` when it returned false, and the pass is over when it failed.
After(ret, on, skip) ==
    IF Failed(ret) THEN "aborted" ELSE IF ret = "false" THEN skip ELSE on

\* The elements of `kinds` leave `seen` when their parent is left.
Forget(kinds) == {e \in seen : e[1] \notin kinds}

\* The element kind a comment ends: a field, an argument or a variable takes
\* one comment at most.
AfterComment(i) ==
    IF open[i] \in {"Class", "Method"} THEN SubSeq(open, 1, i)
    ELSE SubSeq(open, 1, i - 1)

ProtoHeader ==
    /\ Proto
    /\ stage = "start"
    /\ visit_header
    /\ stage' = After(last'.ret, "namespaces", "noheader")
    /\ UNCHANGED <<open, pending, nns, passed, named, seen>>

ProtoNamespaces ==
    /\ Proto
    /\ stage = "namespaces"
    /\ \E dsts \in NamespaceLists :
          /\ visit_namespaces(Named, dsts)
          /\ nns' = Len(dsts)
          /\ passed' = [i \in 1..Len(dsts) |-> None]
          /\ named' = <<>>
    /\ stage' = After(last'.ret, "header", "header")
    /\ UNCHANGED <<open, pending, seen>>

ProtoMetadata ==
    /\ Proto
    /\ \/ stage = "header"
       \/ stage = "content" /\ pending = "" /\ "NeedsHeaderMetadata" \notin flags
    /\ \E m \in MetadataInputs : visit_metadata(m[1], m[2])
    /\ stage' = After(last'.ret, stage, stage)
    /\ open' = <<>>
    /\ UNCHANGED <<pending, nns, passed, seen>>
    /\ named' = <<>>

ProtoContent ==
    /\ Proto
    /\ stage \in {"header", "noheader"}
    /\ visit_content
    /\ stage' = After(last'.ret, "content", "nocontent")
    /\ UNCHANGED <<open, pending, nns, passed, named, seen>>

\* An element begins: the elements below `depth` stay open, and it is
\* pending unless the callback asked to skip it.
Begun(kind, key, depth, forgotten) ==
    /\ stage' = After(last'.ret, "content", "content")
    /\ open' = SubSeq(open, 1, depth)
    /\ pending' = IF last'.ret = "true" THEN kind ELSE ""
    /\ seen' = Forget(forgotten) \cup {<<kind, key>>}
    /\ passed' = [i \in 1..nns |-> None]
    /\ named' = <<>>
    /\ UNCHANGED nns

ProtoClass ==
    /\ Proto
    /\ stage = "content" /\ pending = ""
    /\ \E n \in ClassNames :
          /\ <<"Class", n>> \notin seen
          /\ visit_class(n)
          /\ Begun("Class", n, 0, {"Field", "Method", "MethodArg", "MethodVar"})

ProtoField ==
    /\ Proto
    /\ stage = "content" /\ pending = "" /\ Len(open) >= 1
    /\ \E n \in FieldNames, d \in FieldDescs :
          /\ <<"Field", n>> \notin seen
          /\ visit_field(n, d)
          /\ Begun("Field", n, 1, {"MethodArg", "MethodVar"})

ProtoMethod ==
    /\ Proto
    /\ stage = "content" /\ pending = "" /\ Len(open) >= 1
    /\ \E n \in MethodNames, d \in MethodDescs :
          /\ <<"Method", n>> \notin seen
          /\ visit_method(n, d)
          /\ Begun("Method", n, 1, {"MethodArg", "MethodVar"})

ProtoArg ==
    /\ Proto
    /\ stage = "content" /\ pending = ""
    /\ Len(open) >= 2 /\ open[2] = "Method"
    /\ \E a \in ArgInputs :
          /\ <<"MethodArg", a[1]>> \notin seen
          /\ visit_method_arg(0, a[1], a[2])
          /\ Begun("MethodArg", a[1], 2, {})

ProtoVar ==
    /\ Proto
    /\ stage = "content" /\ pending = ""
    /\ Len(open) >= 2 /\ open[2] = "Method"
    /\ \E v \in VarInputs :
          /\ <<"MethodVar", v[2]>> \notin seen
          /\ visit_method_var(v[1], v[2], v[3], v[4])
          /\ Begun("MethodVar", v[2], 2, {})

ProtoDstName ==
    /\ Proto
    /\ stage = "content" /\ pending # ""
    /\ \E ns \in 0..(nns - 1), n \in DstNames :
          /\ visit_dst_name(pending, ns, n)
          /\ passed' = [passed EXCEPT ![ns + 1] = Some(n)]
          /\ named' = Append(named, <<ns, n>>)
    /\ stage' = After(last'.ret, "content", "content")
    /\ UNCHANGED <<open, pending, nns, seen>>

ProtoDstDesc ==
    /\ Proto
    /\ stage = "content" /\ pending \in {"Field", "Method"}
    /\ \E d \in DstDescs : visit_dst_desc(pending, 0, d)
    /\ stage' = After(last'.ret, "content", "content")
    /\ UNCHANGED <<open, pending, nns, passed, named, seen>>

ProtoElementContent ==
    /\ Proto
    /\ stage = "content" /\ pending # ""
    /\ visit_element_content(pending)
    /\ stage' = After(last'.ret, "content", "content")
    /\ open' = IF last'.ret = "true" THEN Append(open, pending) ELSE open
    /\ pending' = ""
    /\ UNCHANGED <<nns, passed, named, seen>>

ProtoComment ==
    /\ Proto
    /\ stage = "content" /\ pending = ""
    /\ \E i \in 1..Len(open), c \in Comments :
          /\ visit_comment(open[i], c)
          /\ open' = AfterComment(i)
    /\ stage' = After(last'.ret, "content", "content")
    /\ UNCHANGED <<pending, nns, passed, seen>>
    /\ named' = <<>>

\* visit_end: true ends the pass, false asks for another one.
ProtoEnd ==
    /\ Proto
    /\ stage \in {"content", "nocontent"} /\ pending = ""
    /\ visit_end
    /\ stage' = After(last'.ret, "done", "start")
    /\ open' = <<>>
    /\ seen' = {}
    /\ UNCHANGED <<pending, nns, passed>>
    /\ named' = <<>>

\* The names passed for an element whose checkpoint has not been visited.
Pending ==
    IF pending = "" THEN {}
    ELSE {passed[i].val : i \in {j \in DOMAIN passed : passed[j].some}}

\* reset re-arms the writer for another, independent visitation, after a
\* visitation has ended or failed, or when the producer abandons one.
ProtoReset ==
    /\ ProtoCall
    /\ stage # "start"
    /\ last.ret # "panic"
    /\ reset
    /\ stage' = "start"
    /\ open' = <<>>
    /\ pending' = ""
    /\ seen' = {}
    /\ stale' = stale \cup Pending
    /\ UNCHANGED <<nns, passed>>
    /\ named' = <<>>

NextProto ==
    \/ ProtoHeader
    \/ ProtoNamespaces
    \/ ProtoMetadata
    \/ ProtoContent
    \/ ProtoClass
    \/ ProtoField
    \/ ProtoMethod
    \/ ProtoArg
    \/ ProtoVar
    \/ ProtoDstName
    \/ ProtoDstDesc
    \/ ProtoElementContent
    \/ ProtoComment
    \/ ProtoEnd
    \/ ProtoReset

SpecProto == Init /\ [][NextProto]_vars

---------------------------------------------------------------------------
(* SpecNames: a text, and calls of the functions of ClassName on it.  A    *)
(* constructor takes the text, or the text the last accessor returned; an  *)
(* accessor is called on the name the last constructor made.               *)

InitNames ==
    /\ NewWriter
    /\ budget = Unlimited
    /\ cls \in {[NoNameCall EXCEPT !.arg = text] : text \in NameTexts}
    /\ typ = NoTypeCall

Constructors == {"from_internal_name", "from_binary_name"}

\* The writer takes no part.
NameCall ==
    /\ Len(cls.path) < MaxNameCalls
    /\ UNCHANGED <<sink, dst_names, budget, last, ncalls, script, producer, typ>>

\* The text a constructor is given.
NameGiven == IF cls.path = <<>> THEN cls.arg ELSE cls.out

\* The last call made, "new" when there is none.
LastNameCall == IF cls.path = <<>> THEN "new" ELSE cls.path[Len(cls.path)]

Constructed(op, cn) ==
    /\ LastNameCall \notin Constructors
    /\ cls' = [cls EXCEPT !.cn = cn,
                          !.first = IF cls.path = <<>> THEN cn ELSE @,
                          !.path = Append(@, op)]

Accessed(op, text) ==
    /\ LastNameCall \in Constructors
    /\ cls' = [cls EXCEPT !.out = text, !.path = Append(@, op)]

NamesFromInternalName ==
    NameCall /\ Constructed("from_internal_name", from_internal_name(NameGiven))

NamesFromBinaryName ==
    NameCall /\ Constructed("from_binary_name", from_binary_name(NameGiven))

NamesInternalName ==
    NameCall /\ Accessed("internal_name", internal_name(cls.cn))

NamesBinaryName ==
    NameCall /\ Accessed("binary_name", binary_name(cls.cn))

NextNames ==
    \/ NamesFromInternalName
    \/ NamesFromBinaryName
    \/ NamesInternalName
    \/ NamesBinaryName

SpecNames == InitNames /\ [][NextNames]_vars

---------------------------------------------------------------------------
(* SpecTypes: a type, and calls of the functions of Type on it.  array()   *)
(* is called on the type at hand and its result is the type at hand from   *)
(* then on; the receiver is kept as the call left it.                      *)

InitTypes ==
    /\ NewWriter
    /\ budget = Unlimited
    /\ cls = NoNameCall
    /\ typ \in {[NoTypeCall EXCEPT !.start = t, !.self = t, !.receiver = t] :
                   t \in StartTypes}

\* The writer takes no part.
TypeCall ==
    UNCHANGED <<sink, dst_names, budget, last, ncalls, script, producer, cls>>

TypesArray ==
    /\ TypeCall
    /\ typ.arrays < MaxArrays
    /\ typ' = [typ EXCEPT !.self = array(typ.self),
                          !.receiver = typ.self,
                          !.arrays = @ + 1,
                          !.op = "array",
                          !.out = <<>>]

\* An accessor returns a text or a number and leaves the type as it is.
Rendered(op, out) ==
    typ' = [typ EXCEPT !.op = op, !.out = out, !.receiver = typ.self]

TypesDescriptor == TypeCall /\ Rendered("descriptor", descriptor(typ.self))

TypesJavaName == TypeCall /\ Rendered("java_name", java_name(typ.self))

TypesArrayDepth == TypeCall /\ Rendered("array_depth", array_depth(typ.self))

NextTypes ==
    \/ TypesArray
    \/ TypesDescriptor
    \/ TypesJavaName
    \/ TypesArrayDepth

SpecTypes == InitTypes /\ [][NextTypes]_vars

---------------------------------------------------------------------------
(* What the last callback appended to the sink, and helpers of the claims. *)

Succeeded == last.ret \in {"true", "unit"}

Appended == SubSeq(sink, last.start + 1, Len(sink))

IsPrefix(s, t) == Len(s) <= Len(t) /\ SubSeq(t, 1, Len(s)) = s

IsSuffix(s, t) ==
    Len(s) <= Len(t) /\ SubSeq(t, Len(t) - Len(s) + 1, Len(t)) = s

AllNone(names) == \A i \in DOMAIN names : ~names[i].some

\* The step just taken was a call of `op`.
Called(op) == ncalls' = ncalls + 1 /\ last'.op = op

---------------------------------------------------------------------------
(* C1: driving a fresh writer through the worked example (namespaces      *)
(* "named" and ["intermediary"], class "a" named "b", field "f" of        *)
(* descriptor "I" named "g", then the comment "note" on the field) leaves  *)
(* exactly the four lines                                                  *)
(*   tiny\tv2\t0\tnamed\tintermediary\n   c\ta\tb\n                        *)
(*   \tf\tI\tf\tg\n                        \t\tc\tnote\n                   *)
(* in the sink.                                                            *)

C1_Lines ==
    <<"t", "i", "n", "y", Tab, "v", "2", Tab, "0", Tab>> \o Named
        \o <<Tab>> \o Intermediary \o <<Newline>>
    \o <<"c", Tab, "a", Tab, "b", Newline>>
    \o <<Tab, "f", Tab, "I", Tab, "f", Tab, "g", Newline>>
    \o <<Tab, Tab, "c", Tab>> \o Note \o <<Newline>>

C1_ScenarioOutput == script = Len(Scenario) => sink = C1_Lines

---------------------------------------------------------------------------
(* C2: every record is newline-terminated: after a successful              *)
(* visit_namespaces, visit_element_content or visit_comment the last       *)
(* character in the sink is a newline.                                     *)

C2_RecordsEndInNewline ==
    (/\ last.op \in {"visit_namespaces", "visit_element_content", "visit_comment"}
     /\ Succeeded)
    => (sink # <<>> /\ sink[Len(sink)] = Newline)

---------------------------------------------------------------------------
(* C3: with N destination namespaces, every successful checkpoint appends  *)
(* exactly N destination-name fields, one tab before each, whatever the    *)
(* element kind and whichever indices were named; a namespace with no name *)
(* gives an empty field, never a missing one.                              *)

\* One column per slot: a tab, then the name when there is one.
RECURSIVE DstColumns(_)
DstColumns(names) ==
    IF names = <<>> THEN <<>>
    ELSE <<Tab>> \o (IF Head(names).some THEN Head(names).val ELSE <<>>)
         \o DstColumns(Tail(names))

TabCount(text) == Cardinality({i \in DOMAIN text : text[i] = Tab})

C3_DstColumnCount ==
    [][(Called("visit_element_content") /\ last'.ret = "true")
        => /\ Len(dst_names) = nns
           /\ sink' = sink \o DstColumns(dst_names)
           /\ TabCount(DstColumns(dst_names)) = nns]_vars

\* A method's checkpoint with two namespaces, the first without a name.
C3_Witness ==
    /\ last.op = "visit_element_content" /\ last.ret = "true"
    /\ last.call[2] = "Method"
    /\ nns = 2
    /\ Appended = <<Tab, Tab, "g">>

---------------------------------------------------------------------------
(* C4: the writer declares NeedsSrcFieldDesc and NeedsSrcMethodDesc, and   *)
(* visit_field or visit_method with no source descriptor returns an error  *)
(* in every state of the writer: never success, and no descriptor          *)
(* placeholder nor anything after the record's tag is written.             *)

C4_AbsentDescFails ==
    /\ {"NeedsSrcFieldDesc", "NeedsSrcMethodDesc"} \subseteq flags
    /\ (last.op \in {"visit_field", "visit_method"} /\ ~last.call[3].some)
       => /\ last.ret \in {"desc_error", "sink_error"}
          /\ Appended \in {<<>>, <<Tab, "f", Tab>>, <<Tab, "m", Tab>>}

\* A field without descriptor, visited while a destination name is pending.
C4_Witness ==
    /\ last.op = "visit_field" /\ ~last.call[3].some
    /\ last.ret = "desc_error"
    /\ ~AllNone(dst_names)

---------------------------------------------------------------------------
(* C5: after every successful checkpoint every slot of the scratch buffer  *)
(* is empty, so an element's checkpoint writes the names passed for that   *)
(* element and no name passed for an earlier one.                          *)

C5_FlushClearsNames ==
    /\ [](last.op = "visit_element_content" /\ last.ret = "true"
          => AllNone(dst_names))
    /\ [][(Called("visit_element_content") /\ last'.ret = "true")
          => sink' = sink \o DstColumns(passed)]_vars

\* The checkpoint of a field with no names, in a class that has one.
C5_Witness ==
    /\ last.op = "visit_element_content" /\ last.ret = "true"
    /\ open = <<"Class", "Field">>
    /\ Appended = <<Tab, Tab>>
    /\ \E i \in 1..last.start : sink[i] = "b"

---------------------------------------------------------------------------
(* C6 as claimed: whenever a new element begins (visit_class, visit_field, *)
(* visit_method, visit_method_arg, visit_method_var) the scratch buffer is *)
(* reset to empty, whatever the callbacks before.                          *)

BeginOps == {"visit_class", "visit_field", "visit_method",
             "visit_method_arg", "visit_method_var"}

C6_BeginResetsBuffer ==
    (last.op \in BeginOps /\ last.ret = "true") => AllNone(dst_names)

(* C6 as amended: a begin callback leaves the scratch buffer as it was.    *)
(* Only visit_namespaces, visit_dst_name and visit_element_content change  *)
(* it, so names passed for an element whose checkpoint was never reached   *)
(* are still in the buffer when the next element begins.                   *)

C6_BeginKeepsBuffer ==
    [][/\ (ncalls' = ncalls + 1 /\ last'.op \in BeginOps)
          => dst_names' = dst_names
       /\ dst_names' # dst_names
          => last'.op \in {"visit_namespaces", "visit_dst_name",
                           "visit_element_content"}]_vars

\* A class begun while a name passed earlier is still in the buffer.
C6_Witness ==
    /\ last.op = "visit_class" /\ last.ret = "true"
    /\ ~AllNone(dst_names)

---------------------------------------------------------------------------
(* C8: the writer declares exactly NeedsHeaderMetadata, NeedsUniqueness,   *)
(* NeedsSrcFieldDesc and NeedsSrcMethodDesc, so not NeedsMultiplePasses,   *)
(* and its visit_end returns true after every sequence of callbacks: it    *)
(* never asks for another pass.                                            *)

C8_EndIsFinal ==
    /\ flags = {"NeedsHeaderMetadata", "NeedsUniqueness",
                "NeedsSrcFieldDesc", "NeedsSrcMethodDesc"}
    /\ last.op = "visit_end" => last.ret = "true"
    /\ (last.op = "visit_end" /\ last.ret = "false")
       => "NeedsMultiplePasses" \in flags

\* The end of a pass in which a destination name was left in the buffer.
C8_Witness ==
    /\ last.op = "visit_end" /\ last.ret = "true"
    /\ ~AllNone(dst_names)
    /\ sink # <<>>

---------------------------------------------------------------------------
(* C9: the output is append-only and ordered.  The sink before a callback  *)
(* is a prefix of the sink after it; a callback that succeeds has appended *)
(* the text it was given; visit_dst_name appends nothing, and the names it *)
(* holds back are all written by the next successful checkpoint, which     *)
(* leaves none behind.                                                     *)

RECURSIVE NamespaceColumns(_)
NamespaceColumns(names) ==
    IF names = <<>> THEN <<>>
    ELSE <<Tab>> \o Head(names) \o NamespaceColumns(Tail(names))

OptText(opt) == IF opt.some THEN opt.val ELSE <<>>

\* The text a callback is given, as it stands at the end of what it appends.
GivenText ==
    CASE last.op = "visit_namespaces" ->
            last.call[2] \o NamespaceColumns(last.call[3]) \o <<Newline>>
      [] last.op = "visit_class" -> last.call[2]
      [] last.op \in {"visit_field", "visit_method"} ->
            last.call[3].val \o <<Tab>> \o last.call[2]
      [] last.op = "visit_method_arg" ->
            Display(last.call[3]) \o <<Tab>> \o OptText(last.call[4])
      [] last.op = "visit_method_var" ->
            Display(last.call[3]) \o <<Tab>> \o Display(last.call[4])
            \o <<Tab>> \o Display(i32_max(last.call[2], -1)) \o <<Tab>>
            \o OptText(last.call[5])
      [] last.op = "visit_comment" -> last.call[3] \o <<Newline>>
      [] OTHER -> <<>>

C9_AppendOnly ==
    /\ [][IsPrefix(sink, sink')]_vars
    /\ [][Called("visit_dst_name") => sink' = sink]_vars
    /\ [][(Called("visit_element_content") /\ last'.ret = "true")
          => /\ sink' = sink \o DstColumns(dst_names)
             /\ AllNone(dst_names')]_vars
    /\ [](Succeeded => IsSuffix(GivenText, Appended))

\* A class written behind the header while a destination name is held back.
C9_Witness ==
    /\ last.op = "visit_class" /\ last.ret = "true"
    /\ last.start > 0
    /\ Len(sink) > last.start
    /\ ~AllNone(dst_names)

---------------------------------------------------------------------------
(* C10: when the sink rejects a write, the callback returns the error at   *)
(* once: the rejected write is its last attempt (no retry, no write after  *)
(* it) and its result is the error, never a success.                       *)

C10_SinkErrorStops ==
    /\ last.rejects > 0
       => /\ last.ret = "sink_error"
          /\ last.rejects = 1
          /\ budget = 0
    /\ last.ret = "sink_error" => last.rejects = 1

\* visit_namespaces over a sink that takes two writes: the third is rejected.
C10_Witness ==
    /\ last.op = "visit_namespaces"
    /\ last.ret = "sink_error"
    /\ last.attempts = 3
    /\ Appended # <<>>

---------------------------------------------------------------------------
(* C11: the record of visit_method_var holds, in this order, lv_index,     *)
(* start_op_idx and the LVT row index, and the LVT row index written is    *)
(* max(lvt_row_index, -1) for every i32: a value of -1 or more is written  *)
(* as it is, a value below -1 is written as -1; lv_index and start_op_idx  *)
(* are written as they are.                                                *)

\* The LVT row index as the record shows it.
ClampedRow(lvt_row_index) == IF lvt_row_index >= -1 THEN lvt_row_index ELSE -1

\* The record of a variable.
VarRecord(lvt_row_index, lv_index, start_op_idx, src_name) ==
    <<Tab, Tab, "v", Tab>> \o Display(lv_index) \o <<Tab>>
        \o Display(start_op_idx) \o <<Tab>>
        \o Display(ClampedRow(lvt_row_index)) \o <<Tab>> \o OptText(src_name)

C11_LvtRowClamped ==
    (last.op = "visit_method_var" /\ last.ret = "true")
    => /\ Appended = VarRecord(last.call[2], last.call[3], last.call[4],
                               last.call[5])
       /\ last.call[2] = I32Min
          => Appended = <<Tab, Tab, "v", Tab, "0", Tab, "0", Tab, "-", "1", Tab>>
       /\ last.call[2] = -2
          => Appended = <<Tab, Tab, "v", Tab, "1", Tab, "4", "0", Tab,
                          "-", "1", Tab, "v">>
       /\ last.call[2] = 0
          => Appended = <<Tab, Tab, "v", Tab, "1", "0", Tab, "7", Tab,
                          "0", Tab, "v">>

\* A variable whose LVT row index is i32::MIN, written behind other text.
C11_Witness ==
    /\ last.op = "visit_method_var" /\ last.ret = "true"
    /\ last.call[2] = I32Min
    /\ last.start > 0
    /\ IsSuffix(<<"-", "1", Tab>>, sink)

---------------------------------------------------------------------------
(* C12: visit_comment(kind, text) appends exactly level(kind) + 1 tabs,    *)
(* then "c", a tab, the text as given and a newline, where the level is 0  *)
(* for Class, 1 for Field and Method, 2 for MethodArg and MethodVar.       *)

CommentLevel(kind) ==
    IF kind = "Class" THEN 0
    ELSE IF kind \in {"Field", "Method"} THEN 1
    ELSE 2

Tabs(n) == [i \in 1..n |-> Tab]

C12_CommentRecord ==
    (last.op = "visit_comment" /\ last.ret = "unit")
    => /\ last.call[2] \in Kinds
       /\ Appended = Tabs(CommentLevel(last.call[2]) + 1) \o <<"c", Tab>>
                        \o last.call[3] \o <<Newline>>

\* A comment on a local variable, written behind other text.
C12_Witness ==
    /\ last.op = "visit_comment" /\ last.ret = "unit"
    /\ last.call[2] = "MethodVar"
    /\ last.start > 0
    /\ Appended = <<Tab, Tab, Tab, "c", Tab, "n", "o", "t", "e", Newline>>

---------------------------------------------------------------------------
(* C13: visit_namespaces(src, dsts) appends exactly the header line:       *)
(* "tiny", tab, "v2", tab, "0", tab, src, then a tab and the name for each *)
(* destination namespace in the order of the list, then a newline; with no *)
(* destination namespace the line ends right behind src.                   *)

HeaderLine(src, dsts) ==
    <<"t", "i", "n", "y", Tab, "v", "2", Tab, "0", Tab>> \o src
        \o NamespaceColumns(dsts) \o <<Newline>>

C13_HeaderLine ==
    (last.op = "visit_namespaces" /\ last.ret = "unit")
    => /\ Appended = HeaderLine(last.call[2], last.call[3])
       /\ last.call[3] = <<>>
          => Appended = <<"t", "i", "n", "y", Tab, "v", "2", Tab, "0", Tab,
                          "n", "a", "m", "e", "d", Newline>>
       /\ Len(last.call[3]) = 2
          => IsSuffix(<<"d", Tab>> \o DstNamespaceNames[1] \o <<Tab>>
                        \o DstNamespaceNames[2] \o <<Newline>>, Appended)

\* The header of a file with the source namespace only.
C13_Witness ==
    /\ last.op = "visit_namespaces" /\ last.ret = "unit"
    /\ last.call[3] = <<>>
    /\ Appended = HeaderLine(Named, <<>>)

---------------------------------------------------------------------------
(* C14: for every text n, from_binary_name(n).internal_name() is n with    *)
(* every "." replaced by "/" and nothing else changed, and                 *)
(* from_internal_name(m).binary_name() is m with every "/" replaced by     *)
(* "."; for n without "/", from_binary_name(n).binary_name() is n, and for *)
(* m without ".",                                                          *)
(* from_binary_name(from_internal_name(m).binary_name()).internal_name()   *)
(* is m.                                                                   *)

\* The text s with x in the place of every y, character by character.
Swapped(s, y, x) == [i \in 1..Len(s) |-> IF s[i] = y THEN x ELSE s[i]]

Has(s, c) == \E i \in 1..Len(s) : s[i] = c

C14_NameConversions ==
    /\ cls.path = <<"from_binary_name", "internal_name">>
       => cls.out = Swapped(cls.arg, ".", "/")
    /\ cls.path = <<"from_internal_name", "binary_name">>
       => cls.out = Swapped(cls.arg, "/", ".")
    /\ (cls.path = <<"from_binary_name", "binary_name">> /\ ~Has(cls.arg, "/"))
       => cls.out = cls.arg
    /\ (/\ cls.path = <<"from_internal_name", "binary_name",
                        "from_binary_name", "internal_name">>
        /\ ~Has(cls.arg, "."))
       => cls.out = cls.arg

\* An internal name of two packages, taken to its binary name and back.
C14_Witness ==
    /\ cls.path = <<"from_internal_name", "binary_name",
                    "from_binary_name", "internal_name">>
    /\ cls.arg = <<"/", "a", "/">>
    /\ cls.out = cls.arg

---------------------------------------------------------------------------
(* C15 as claimed: for every ClassName c, whichever constructor made it    *)
(* from whichever text, from_binary_name(c.binary_name()) equals c, and    *)
(* two class names with different internal names have different binary     *)
(* names.                                                                  *)

\* The class names other than c that have the binary name of c.
SameBinaryName(c) ==
    {d \in {from_internal_name(text) : text \in NameTexts} :
        d # c /\ binary_name(d) = binary_name(c)}

C15_Bijective ==
    /\ (Len(cls.path) = 3 /\ cls.path[2] = "binary_name"
            /\ cls.path[3] = "from_binary_name")
       => cls.cn = cls.first
    /\ (Len(cls.path) = 2 /\ cls.path[2] = "binary_name")
       => SameBinaryName(cls.cn) = {}

(* C15 as amended: the two hold for the class names whose internal name    *)
(* has no ".", which are all those from_binary_name makes and those        *)
(* from_internal_name makes of a text without ".".  from_internal_name     *)
(* keeps a "." of its text, and from_binary_name of the binary name of     *)
(* such a class name is another class name, the one with the same binary   *)
(* name and "/" in place of every ".".                                     *)

Dotless(c) == ~Has(internal_name(c), ".")

C15_BijectiveWithoutDots ==
    /\ (Len(cls.path) >= 1 /\ cls.path[Len(cls.path)] = "from_binary_name")
       => Dotless(cls.cn)
    /\ (Len(cls.path) = 3 /\ cls.path[2] = "binary_name"
            /\ cls.path[3] = "from_binary_name")
       => /\ Dotless(cls.first) => cls.cn = cls.first
          /\ ~Dotless(cls.first)
             => /\ cls.cn # cls.first
                /\ binary_name(cls.cn) = binary_name(cls.first)
                /\ internal_name(cls.cn)
                     = Swapped(internal_name(cls.first), ".", "/")
    /\ (Len(cls.path) = 2 /\ cls.path[2] = "binary_name" /\ Dotless(cls.cn))
       => {d \in SameBinaryName(cls.cn) : Dotless(d)} = {}

\* A class name made of an internal name without ".", and made again of its
\* binary name.
C15_Witness ==
    /\ cls.path = <<"from_internal_name", "binary_name", "from_binary_name">>
    /\ cls.arg = <<"a", "/", "a">>
    /\ cls.out = <<"a", ".", "a">>
    /\ cls.cn = cls.first

---------------------------------------------------------------------------
(* C16 as claimed: for every type t and every k >= 0, the type that k      *)
(* calls of array() make of t has array_depth() k, and its java_name() is  *)
(* the java_name of the base element followed by exactly k "[]"; array()   *)
(* leaves its receiver unchanged.                                          *)

\* The Array layers around a type, and the type inside them.
RECURSIVE Layers(_)
Layers(t) == IF t.tag = "Array" THEN 1 + Layers(t.element_type) ELSE 0

RECURSIVE BaseElement(_)
BaseElement(t) == IF t.tag = "Array" THEN BaseElement(t.element_type) ELSE t

Brackets(n) == [i \in 1..(2 * n) |-> IF i % 2 = 1 THEN "[" ELSE "]"]

C16_ArrayDepthIsK ==
    /\ typ.op = "array_depth" => typ.out = typ.arrays
    /\ typ.op = "java_name"
       => typ.out = java_name(BaseElement(typ.start)) \o Brackets(typ.arrays)
    /\ typ.op = "array" => typ.receiver = typ.self.element_type

(* C16 as amended: k calls of array() add k to the array depth and k "[]"  *)
(* to the java_name: the type they make of t has array_depth()             *)
(* t.array_depth() + k and the java_name of t followed by exactly k "[]",  *)
(* which is k and the base element's java_name followed by k "[]" when t   *)
(* is no array itself; array() leaves its receiver unchanged.              *)

C16_ArrayAddsDepth ==
    /\ typ.op = "array_depth"
       => /\ typ.out = Layers(typ.start) + typ.arrays
          /\ typ.start.tag # "Array" => typ.out = typ.arrays
    /\ typ.op = "java_name"
       => /\ typ.out = java_name(typ.start) \o Brackets(typ.arrays)
          /\ typ.out = java_name(BaseElement(typ.start))
                         \o Brackets(Layers(typ.start) + typ.arrays)
          /\ typ.start.tag # "Array"
             => typ.out = java_name(BaseElement(typ.start))
                            \o Brackets(typ.arrays)
    /\ typ.op = "array"
       => /\ typ.receiver = typ.self.element_type
          /\ Layers(typ.receiver) = Layers(typ.start) + typ.arrays - 1
          /\ BaseElement(typ.receiver) = BaseElement(typ.start)

\* java.lang.String[][][], made by three calls of array().
C16_Witness ==
    /\ typ.start = to_type(from_binary_name(JavaLangString))
    /\ typ.arrays = 3
    /\ typ.op = "java_name"
    /\ typ.out = JavaLangString \o <<"[", "]", "[", "]", "[", "]">>

---------------------------------------------------------------------------
(* C17: descriptor() follows the JVM grammar: Object(name) gives "L", the  *)
(* internal name and ";"; Array(e) gives "[" and the descriptor of e, so a *)
(* type of array depth d starts with exactly d "["; Byte, Short, Int,      *)
(* Long, Float, Double, Boolean, Char and Void give B, S, I, J, F, D, Z,   *)
(* C and V; different primitive tags give different descriptors.           *)

Letter(tag) ==
    CASE tag = "Byte" -> "B" [] tag = "Short" -> "S" [] tag = "Int" -> "I"
      [] tag = "Long" -> "J" [] tag = "Float" -> "F" [] tag = "Double" -> "D"
      [] tag = "Boolean" -> "Z" [] tag = "Char" -> "C" [] tag = "Void" -> "V"

\* The descriptor of a type that is no array.
ElementDescriptor(t) ==
    IF t.tag = "Object" THEN <<"L">> \o t.name.internal_name \o <<";">>
    ELSE <<Letter(t.tag)>>

C17_DescriptorGrammar ==
    typ.op = "descriptor"
    => LET d == Layers(typ.self) IN
       /\ typ.out = [i \in 1..d |-> "["] \o ElementDescriptor(BaseElement(typ.self))
       /\ Len(typ.out) > d
       /\ \A i \in 1..d : typ.out[i] = "["
       /\ typ.out[d + 1] # "["
       /\ typ.self.tag \in PrimitiveTags
          => /\ typ.out = <<Letter(typ.self.tag)>>
             /\ \A tag \in PrimitiveTags \ {typ.self.tag} :
                    descriptor(Primitive(tag)) # typ.out
       /\ typ.self = Object(from_binary_name(JavaLangString))
          => typ.out = <<"L", "j", "a", "v", "a", "/", "l", "a", "n", "g", "/", "S", "t", "r", "i", "n", "g", ";">>

\* The descriptor of a two-dimensional array of a class whose name begins
\* with "[".
C17_Witness ==
    /\ typ.op = "descriptor"
    /\ typ.start = array(to_type(from_internal_name(<<"[", "a">>)))
    /\ typ.arrays = 1
    /\ typ.out = <<"[", "[", "L", "[", "a", ";">>

---------------------------------------------------------------------------
(* C18: after reset the writer can be driven through another visitation    *)
(* whose list of namespaces has another length.  reset itself changes      *)
(* nothing; once the new visit_namespaces has run, the scratch buffer has  *)
(* the new length and every slot is empty, so from then on it holds what   *)
(* the new visitation passed for its pending element, and no name an       *)
(* earlier visitation left pending (one abandoned between a                *)
(* visit_dst_name and its checkpoint included) is written by a checkpoint  *)
(* of the new visitation.                                                  *)

C18_FreshVisitation ==
    /\ [][Called("reset") => (dst_names' = dst_names /\ sink' = sink)]_vars
    /\ [][Called("visit_namespaces")
          => /\ Len(dst_names') = Len(last'.call[3])
             /\ AllNone(dst_names')]_vars
    /\ [](stage \in {"header", "content"}
          => /\ Len(dst_names) = nns
             /\ dst_names = IF pending = "" THEN [i \in 1..nns |-> None]
                             ELSE passed)
    /\ [][(Called("visit_element_content") /\ last'.ret = "true" /\ stale # {})
          => Appended' = DstColumns(passed)]_vars

\* A visitation of two namespaces abandoned while the class holds the name
\* "b", and the checkpoint of the class in the visitation of one namespace
\* that follows: it writes one empty column.
C18_Witness ==
    /\ stale = {<<"b">>}
    /\ last.op = "visit_element_content" /\ last.ret = "true"
    /\ nns = 1
    /\ Appended = <<Tab>>
    /\ sink = HeaderLine(Named, SubSeq(DstNamespaceNames, 1, 2))
                \o <<"c", Tab, "a">>
                \o HeaderLine(Named, SubSeq(DstNamespaceNames, 1, 1))
                \o <<"c", Tab, "a", Tab>>

---------------------------------------------------------------------------
(* C19: a checkpoint writes the destination names in ascending order of    *)
(* the namespace index, in whichever order visit_dst_name was called since *)
(* the element began; when visit_dst_name was called more than once for an *)
(* index, the column holds the name of the latest call only.               *)

\* The calls of visit_dst_name for namespace index ns, by their place in
\* the order of the calls.
NamedAt(ns) == {j \in DOMAIN named : named[j][1] = ns}

\* The name of the latest call for index ns, nothing when there is none.
LatestName(ns) ==
    IF NamedAt(ns) = {} THEN <<>>
    ELSE named[CHOOSE j \in NamedAt(ns) : \A k \in NamedAt(ns) : k <= j][2]

\* The columns of the indices from ns on, in ascending order.
RECURSIVE ColumnsFrom(_)
ColumnsFrom(ns) ==
    IF ns >= nns THEN <<>>
    ELSE <<Tab>> \o LatestName(ns) \o ColumnsFrom(ns + 1)

C19_IndexOrderLatestName ==
    [][(Called("visit_element_content") /\ last'.ret = "true")
        => sink' = sink \o ColumnsFrom(0)]_vars

\* A class named for index 1 first, then twice for index 0: the checkpoint
\* writes the second name of index 0, then the name of index 1.
C19_Witness ==
    /\ last.op = "visit_element_content" /\ last.ret = "true"
    /\ named = << <<1, <<"g">> >>, <<0, <<"g">> >>, <<0, <<"b">> >> >>
    /\ Appended = <<Tab, "b", Tab, "g">>

---------------------------------------------------------------------------
(* C20: the callbacks the writer does not override (visit_header,          *)
(* visit_content, visit_metadata, visit_dst_desc, visit_end, reset) do     *)
(* nothing: in every state each of them succeeds, attempts no write and    *)
(* leaves the sink and the scratch buffer as they were, so no metadata     *)
(* entry and no destination descriptor is ever in the output, although the *)
(* writer declares NeedsHeaderMetadata.                                    *)

InheritedOps == {"visit_header", "visit_content", "visit_metadata",
                 "visit_dst_desc", "visit_end", "reset"}

\* The characters of the metadata entries and destination descriptors given.
GivenAside ==
    UNION {{m[1][i] : i \in DOMAIN m[1]} \cup {m[2][i] : i \in DOMAIN m[2]} :
              m \in MetadataInputs}
    \cup UNION {{d[i] : i \in DOMAIN d} : d \in DstDescs}

C20_InheritedDoNothing ==
    /\ [][(ncalls' = ncalls + 1 /\ last'.op \in InheritedOps)
          => /\ sink' = sink
             /\ dst_names' = dst_names
             /\ last'.ret \in {"true", "unit"}
             /\ last'.attempts = 0]_vars
    /\ []("NeedsHeaderMetadata" \in flags)
    /\ [](\A i \in DOMAIN sink : sink[i] \notin GivenAside)

\* A metadata entry given to a writer whose sink rejects every write, while
\* a destination name is in the scratch buffer.
C20_Witness ==
    /\ last.op = "visit_metadata" /\ last.ret = "unit"
    /\ last.call[2] = <<"K">>
    /\ budget = 0
    /\ ~AllNone(dst_names)

---------------------------------------------------------------------------
(* C21: the writer never prunes the traversal.  Every call of              *)
(* visit_header, visit_content, visit_class, visit_field, visit_method,    *)
(* visit_method_arg, visit_method_var and visit_element_content that does  *)
(* not fail returns true, so the producer skips no header, no content and  *)
(* no element: an element it has begun is pending until its checkpoint,    *)
(* and the checkpoint opens its content.                                   *)

PruningOps == {"visit_header", "visit_content", "visit_element_content"}
                  \cup BeginOps

\* The element kind a begin callback begins.
KindOf(op) ==
    CASE op = "visit_class" -> "Class"
      [] op = "visit_field" -> "Field"
      [] op = "visit_method" -> "Method"
      [] op = "visit_method_arg" -> "MethodArg"
      [] op = "visit_method_var" -> "MethodVar"

---------------------------------------------------------------------------
(* C22: a visit_field or visit_method call that fails because the source   *)
(* descriptor is absent fails before anything is written: the sink and the *)
(* scratch buffer are as they were before the call, and no part of a field *)
(* or method record is left in the output.                                 *)

C22_NothingWritten ==
    [][(ncalls' = ncalls + 1 /\ last'.op \in {"visit_field", "visit_method"}
          /\ last'.ret = "desc_error")
        => (sink' = sink /\ dst_names' = dst_names)]_vars

---------------------------------------------------------------------------
(* C23: before any visit_namespaces the scratch buffer has length zero;    *)
(* visit_namespaces gives it the length of the list of destination         *)
(* namespaces it is passed, and no other callback changes its length, so   *)
(* the length is that of the latest list in every state after; a           *)
(* visit_dst_name with an index below it succeeds, with no access out of   *)
(* bounds.                                                                 *)

C23_BufferLength ==
    /\ Len(dst_names) = 0
    /\ [][Called("visit_namespaces")
          => Len(dst_names') = Len(last'.call[3])]_vars
    /\ [][~Called("visit_namespaces") => Len(dst_names') = Len(dst_names)]_vars
    /\ [][(Called("visit_dst_name") /\ last'.call[3] < Len(dst_names))
          => /\ last'.ret = "unit"
             /\ dst_names'[last'.call[3] + 1] = Some(last'.call[4])]_vars
    /\ [](last.op = "new" => Len(dst_names) = 0)
    /\ [](last.op = "visit_namespaces" => Len(dst_names) = Len(last.call[3]))

\* The second of two namespaces named after a checkpoint has written its
\* two empty columns.
C23_Witness ==
    /\ last.op = "visit_dst_name" /\ last.ret = "unit"
    /\ last.call[3] = 1
    /\ Len(dst_names) = 2
    /\ dst_names[2].some
    /\ sink = HeaderLine(Named, SubSeq(DstNamespaceNames, 1, 2)) \o <<Tab, Tab>>

===========================================================================
